---- MODULE Spec2Model ----
(***************************************************************************)
(* NavigationDrawer (src/navigationdrawer.py): the touch-gesture state     *)
(* machine, the open/closed commands and the property animations.          *)
(*                                                                         *)
(* Units.  Lengths are in dp; the drawer sits at x = 0 and is `width` wide.*)
(* _anim_progress is a real in [0,1]; it is stored here multiplied by      *)
(* side_panel_width, so that the drag mapping                              *)
(*     (_panel_init_x + dx) / side_panel_width                             *)
(* is exact on the integer grid.  A comparison  progress > c  with c given *)
(* in thousandths is  1000 * anim_progress > c * side_panel_width.         *)
(* Only the x coordinate of a touch is modelled (y is inside the drawer).  *)
(*                                                                         *)
(* Touches.  The drawer tells touches apart only by `touch is self._touch`.*)
(* A touch other than the owner may be new or already down; its down, move *)
(* and up events may arrive in any order with those of the owner.          *)
(*                                                                         *)
(* Animations.  kivy's Animation snapshots the start value when started    *)
(* and writes one interpolated value per frame; it is kept here as the     *)
(* sequence of values it has yet to write.  Animation.start() does not     *)
(* stop other Animations on the widget; Animation.cancel_all(self) does.   *)
(***************************************************************************)
EXTENDS Integers, Sequences, FiniteSets, TLC

(* ---- bounds of the model ---- *)
MaxTouches == 2        \* touch objects the host may have alive at once
MaxAnims == 2          \* Animation objects in flight at once
AnimSteps == 1         \* frames an Animation of duration anim_time takes
MaxWidgets == 3        \* content widgets the application holds

(* ---- configuration ---- *)
width == 80                       \* width of the NavigationDrawer
touch_accept_width == 9           \* NumericProperty('9dp')
min_dist_to_open == 700           \* 0.7, in thousandths
snap_back_progress == 975         \* 0.975, in thousandths
open_region_progress == 1         \* 0.001, in thousandths

Min(a, b) == IF a < b THEN a ELSE b
Max(a, b) == IF a > b THEN a ELSE b

side_panel_width == Min(250, width \div 2)

Touches == 1..MaxTouches
None == 0
States == {"open", "closed"}
(* Inputs: where a touch goes down, and how far it is then displaced. *)
DownXs == {9, 10, 81}
MoveDxs == {-80, 28, 29, 39, 80}
NoX == -2
(* Widgets: those of the application, and the three the kv rule creates   *)
(* (BoxLayout sidepanel, BoxLayout mainpanel, Image joinimage).           *)
Widgets == 1..MaxWidgets
KvWidgets == <<-1, -2, -3>>

VARIABLES
    anim_progress,            \* _anim_progress * side_panel_width
    state,                    \* 'open' / 'closed'
    touch,                    \* _touch: the currently active touch, or None
    panel_init_x,             \* _panel_init_x
    touch_ox,                 \* touch.ox of the active touch
    touch_ud,                 \* touch.ud['type'] of the active touch
    main_panel_final_offset,  \* _main_panel_final_offset
    anims,                    \* Animations running on the widget, in start order,
                              \* each as the values it has yet to write
    written,                  \* values _anim_progress took during the last step
    ev,                       \* the last event or call and its outcome
    rel,                      \* the last release, until the next input
    children,                 \* children of the NavigationDrawer, in order added
    side_container,           \* _side_panel: the BoxLayout that holds the side panel
    main_container,           \* _main_panel: the BoxLayout that holds the main panel
    join_image,               \* _join_image
    side_panel,               \* side_panel: the side panel widget, or None
    main_panel,               \* main_panel: the main panel widget, or None
    side_children,            \* _side_panel.children
    main_children,            \* _main_panel.children
    pev                       \* the last panel call and its outcome

panel_vars == <<children, side_container, main_container, join_image,
                side_panel, main_panel, side_children, main_children, pev>>

gesture_vars == <<anim_progress, state, touch, panel_init_x, touch_ox, touch_ud,
                  main_panel_final_offset, anims, written, ev, rel>>

vars == <<anim_progress, state, touch, panel_init_x, touch_ox, touch_ud,
          main_panel_final_offset, anims, written, ev, rel,
          children, side_container, main_container, join_image,
          side_panel, main_panel, side_children, main_children, pev>>

NoRel == [init |-> "none", p |-> 0]

Event(op, t, x, arg, outcome) ==
    [op |-> op, touch |-> t, x |-> x, arg |-> arg, outcome |-> outcome]

(* ---- kv rule: mainpanel.x and mainpanel.width ---- *)
main_panel_x(p, fo) == 0 + p * fo
main_panel_width == width

(* ---- the widget's properties as one record, threaded through handlers ---- *)
Store == [p |-> anim_progress, s |-> state, anims |-> anims,
          cancelled |-> FALSE, w |-> {}]

StateProgress(s) == IF s = "open" THEN side_panel_width ELSE 0

RECURSIVE set_anim_progress(_, _)
RECURSIVE on__anim_progress(_)
RECURSIVE set_state(_, _)
RECURSIVE on_state(_)

(* Kivy property assignment: observers run only when the value changes. *)
set_anim_progress(st, v) ==
    IF v = st.p THEN st
    ELSE on__anim_progress([st EXCEPT !.p = v, !.w = @ \cup {v}])

(* on__anim_progress without its elif branch for the closed end *)
on__anim_progress_open_only(st) ==
    LET st1 == IF st.p > side_panel_width THEN set_anim_progress(st, side_panel_width)
               ELSE IF st.p < 0 THEN set_anim_progress(st, 0)
               ELSE st
    IN  IF st1.p >= side_panel_width THEN set_state(st1, "open") ELSE st1

on__anim_progress(st) ==
    LET st1 == IF st.p > side_panel_width THEN set_anim_progress(st, side_panel_width)
               ELSE IF st.p < 0 THEN set_anim_progress(st, 0)
               ELSE st
    IN  IF st1.p >= side_panel_width THEN set_state(st1, "open")
        ELSE IF st1.p <= 0 THEN set_state(st1, "closed")
        ELSE st1

set_state(st, v) ==
    IF v = st.s THEN st
    ELSE on_state([st EXCEPT !.s = v])

on_state(st) ==
    LET st1 == [st EXCEPT !.anims = <<>>, !.cancelled = TRUE]
    IN  set_anim_progress(st1, StateProgress(st1.s))

(* Animation(_anim_progress=b, duration=anim_time, t='out_cubic'), started  *)
(* at value a: the value after k of AnimSteps frames.                     *)
OutCubicNum(k) == AnimSteps * AnimSteps * AnimSteps
                  - (AnimSteps - k) * (AnimSteps - k) * (AnimSteps - k)
OutCubicDen == AnimSteps * AnimSteps * AnimSteps

AnimValue(a, b, k) ==
    IF b >= a THEN a + ((b - a) * OutCubicNum(k)) \div OutCubicDen
    ELSE a - ((a - b) * OutCubicNum(k)) \div OutCubicDen

(* The values the Animation writes, one per frame, the last being b. *)
(* an Animation whose frames stop one short of b *)
NewAnim_stops_short(p, target) ==
    [k \in 1..AnimSteps |-> AnimValue(p, StateProgress(target), k - 1)]

NewAnim(p, target) == [k \in 1..AnimSteps |-> AnimValue(p, StateProgress(target), k)]

(* Animation(...).start(self): the new Animation joins those already       *)
(* running on the widget; start() stops nothing but itself.                *)
(* an Animation that is created but never started *)
anim_start_lost(as, p, target) == as

anim_start(as, p, target) == Append(as, NewAnim(p, target))

RelaxTarget(p) ==
    IF 1000 * p > min_dist_to_open * side_panel_width THEN "open" ELSE "closed"

ReleaseTarget(init_state, p) ==
    IF init_state = "open"
    THEN IF 1000 * p >= snap_back_progress * side_panel_width
         THEN "closed" ELSE RelaxTarget(p)
    ELSE RelaxTarget(p)

collide_point(x) == 0 <= x /\ x <= 0 + width

(* the closed-drawer strip measured with side_panel_width *)
valid_region_wide_strip(p, fo, x) ==
    IF 1000 * p > open_region_progress * side_panel_width
    THEN main_panel_x(p, fo) <= x /\ x <= main_panel_x(p, fo) + main_panel_width
    ELSE 0 <= x /\ x <= 0 + side_panel_width

(* the edge strip used whatever the progress *)
valid_region_strip_only(p, fo, x) == 0 <= x /\ x <= 0 + touch_accept_width

valid_region(p, fo, x) ==
    IF 1000 * p > open_region_progress * side_panel_width
    THEN main_panel_x(p, fo) <= x /\ x <= main_panel_x(p, fo) + main_panel_width
    ELSE 0 <= x /\ x <= 0 + touch_accept_width

(* on_touch_down's first test: the touch is outside the drawer, or a touch *)
(* is already active.                                                      *)
(* the first test without the check of _touch *)
not_for_drawer_no_owner_test(x, tch) == ~collide_point(x)

not_for_drawer(x, tch) == ~collide_point(x) \/ tch # None

(* The two rejecting exits of on_touch_down. Both hand the touch to the    *)
(* Widget implementation, which routes it to the children, and return a    *)
(* falsy value (None at line 328, False at line 335): outcome "passed".    *)
(* "swallowed" is a falsy return without the call to super.                *)
reject_not_for_drawer == "passed"

(* the region exit returning False without the call to super *)
reject_region_swallowed == "swallowed"

reject_region == "passed"

(* Animation.cancel_all(self): nothing is left running on the widget. *)
(* the accepting branch without cancel_all *)
cancel_all_skipped(as) == as

cancel_all(as) == <<>>

(* "touch is self._touch": the move or release belongs to the session. *)
(* the handlers without the identity test *)
is_owner_any(t, tch) == TRUE

is_owner(t, tch) == t = tch

(* the drag mapping without max/min *)
MoveProgress_unclamped(init_x, ox, x) == init_x + (x - ox)

(* the drag mapping with the touch position in place of dx *)
MoveProgress_absolute(init_x, ox, x) ==
    Max(0, Min(init_x + x, side_panel_width))

MoveProgress(init_x, ox, x) ==
    Max(0, Min(init_x + (x - ox), side_panel_width))

PanelEvent(op, w, outcome) == [op |-> op, w |-> w, outcome |-> outcome]

(* The drawer as the kv rule leaves it: its three children in place, no    *)
(* side panel and no main panel yet.                                       *)
kv_rule_applied ==
    /\ children = KvWidgets
    /\ side_container = KvWidgets[1]
    /\ main_container = KvWidgets[2]
    /\ join_image = KvWidgets[3]
    /\ side_panel = None
    /\ main_panel = None
    /\ side_children = {}
    /\ main_children = {}
    /\ pev = PanelEvent("kv", None, "ok")

(* The property defaults (lines 140-195): closed, no touch, nothing       *)
(* running, _main_panel_final_offset = 0.                                  *)
Init ==
    /\ anim_progress = 0
    /\ state = "closed"
    /\ touch = None
    /\ panel_init_x = 0
    /\ touch_ox = 0
    /\ touch_ud = "closed"
    /\ main_panel_final_offset = 0
    /\ anims = <<>>
    /\ written = {}
    /\ ev = Event("init", None, NoX, "none", "ok")
    /\ rel = NoRel
    /\ kv_rule_applied

on_touch_down(t, x) ==
    /\ UNCHANGED panel_vars
    /\ t # touch
    /\ rel' = NoRel
    /\ written' = {}
    /\ UNCHANGED <<anim_progress, state, main_panel_final_offset>>
    /\ IF not_for_drawer(x, touch)
       THEN /\ ev' = Event("down", t, x, "none", reject_not_for_drawer)
            /\ UNCHANGED <<touch, panel_init_x, touch_ox, touch_ud, anims>>
       ELSE IF ~valid_region(anim_progress, main_panel_final_offset, x)
       THEN /\ ev' = Event("down", t, x, "none", reject_region)
            /\ UNCHANGED <<touch, panel_init_x, touch_ox, touch_ud, anims>>
       ELSE /\ anims' = cancel_all(anims)
            /\ panel_init_x' = main_panel_x(anim_progress, main_panel_final_offset)
            /\ touch' = t
            /\ touch_ox' = x
            /\ touch_ud' = state
            /\ ev' = Event("down", t, x, "none", "accepted")

on_touch_move(t, x) ==
    /\ UNCHANGED panel_vars
    /\ rel' = NoRel
    /\ UNCHANGED <<touch, panel_init_x, touch_ox, touch_ud,
                   main_panel_final_offset>>
    /\ IF is_owner(t, touch)
       THEN LET st == set_anim_progress(Store, MoveProgress(panel_init_x, touch_ox, x))
            IN  /\ anim_progress' = st.p
                /\ state' = st.s
                /\ anims' = st.anims
                /\ written' = st.w
                /\ ev' = Event("move", t, x, "none", "handled")
       ELSE /\ ev' = Event("move", t, NoX, "none", "passed")
            /\ written' = {}
            /\ UNCHANGED <<anim_progress, state, anims>>

(* init_state = touch.ud['type']: the release decides by the state stored   *)
(* in the touch at its down event, not by self.state.                      *)
(* the release deciding by the state at the moment of the release *)
release_init_state_current(ud, s) == s

release_init_state(ud, s) == ud

(* The release starts one more Animation; MaxAnims caps those in flight. *)
on_touch_up(t) ==
    /\ UNCHANGED panel_vars
    /\ written' = {}
    /\ UNCHANGED <<anim_progress, state, panel_init_x, main_panel_final_offset>>
    /\ IF is_owner(t, touch)
       THEN /\ Len(anims) < MaxAnims
            /\ touch' = None
            /\ touch_ox' = 0
            /\ touch_ud' = "closed"
            /\ anims' = anim_start(anims, anim_progress,
                                      ReleaseTarget(release_init_state(touch_ud, state),
                                                    anim_progress))
            /\ rel' = [init |-> touch_ud, p |-> anim_progress]
            /\ ev' = Event("up", t, NoX, touch_ud, "handled")
       ELSE /\ ev' = Event("up", t, NoX, "none", "passed")
            /\ rel' = NoRel
            /\ UNCHANGED <<touch, touch_ox, touch_ud, anims>>

(* state = v : assignment to the OptionProperty (a jump, no animation). *)
SetState(v) ==
    /\ UNCHANGED panel_vars
    /\ rel' = NoRel
    /\ UNCHANGED <<touch, panel_init_x, touch_ox, touch_ud,
                   main_panel_final_offset>>
    /\ IF v \in States
       THEN LET st == set_state(Store, v)
            IN  /\ anim_progress' = st.p
                /\ state' = st.s
                /\ anims' = st.anims
                /\ written' = st.w
                /\ ev' = Event("set_state", None, NoX, v, "ok")
       ELSE /\ ev' = Event("set_state", None, NoX, v, "raised")
            /\ written' = {}
            /\ UNCHANGED <<anim_progress, state, anims>>

(* anim_to_state's if / elif chain: 'open' and 'closed' start an Animation, *)
(* anything else reaches the raise.                                         *)
(* the chain with a plain else in place of the elif *)
anim_state_known_any(v) == TRUE

anim_state_known(v) == v = "open" \/ v = "closed"

anim_to_state(v) ==
    /\ UNCHANGED panel_vars
    /\ rel' = NoRel
    /\ written' = {}
    /\ UNCHANGED <<anim_progress, state, touch, panel_init_x, touch_ox,
                   touch_ud, main_panel_final_offset>>
    /\ IF anim_state_known(v)
       THEN /\ Len(anims) < MaxAnims
            /\ anims' = anim_start(anims, anim_progress, v)
            /\ ev' = Event("anim_to_state", None, NoX, v, "ok")
       ELSE /\ ev' = Event("anim_to_state", None, NoX, v, "raised")
            /\ UNCHANGED anims

(* toggle_state with the targets of its two branches exchanged *)
Opposite_same(s) == s

Opposite(s) == IF s = "open" THEN "closed" ELSE "open"

(* toggle_state that jumps whatever animate says *)
toggle_state_jump_only(animate) ==
    /\ UNCHANGED panel_vars
    /\ rel' = NoRel
    /\ UNCHANGED <<touch, panel_init_x, touch_ox, touch_ud,
                   main_panel_final_offset>>
    /\ LET st == set_state(Store, Opposite(state))
       IN  /\ anim_progress' = st.p
           /\ state' = st.s
           /\ anims' = st.anims
           /\ written' = st.w
           /\ ev' = Event("toggle", None, NoX,
                          IF animate THEN "animate" ELSE "jump", "ok")

toggle_state(animate) ==
    /\ UNCHANGED panel_vars
    /\ rel' = NoRel
    /\ UNCHANGED <<touch, panel_init_x, touch_ox, touch_ud,
                   main_panel_final_offset>>
    /\ IF animate
       THEN /\ Len(anims) < MaxAnims
            /\ anims' = anim_start(anims, anim_progress, Opposite(state))
            /\ written' = {}
            /\ ev' = Event("toggle", None, NoX, "animate", "ok")
            /\ UNCHANGED <<anim_progress, state>>
       ELSE LET st == set_state(Store, Opposite(state))
            IN  /\ anim_progress' = st.p
                /\ state' = st.s
                /\ anims' = st.anims
                /\ written' = st.w
                /\ ev' = Event("toggle", None, NoX, "jump", "ok")

(* One frame of the clock: every running Animation, in start order, adds   *)
(* the frame time, writes its interpolated value and stops when complete.  *)
(* An Animation cancelled earlier in the frame writes nothing.             *)
RECURSIVE AnimUpdate(_, _, _)
AnimUpdate(running, i, st) ==
    IF i > Len(running) \/ st.cancelled THEN st
    ELSE LET an == running[i]
             st1 == set_anim_progress(st, Head(an))
             st2 == IF st1.cancelled \/ Len(an) = 1 THEN st1
                    ELSE [st1 EXCEPT !.anims = Append(@, Tail(an))]
         IN  AnimUpdate(running, i + 1, st2)

Tick ==
    /\ UNCHANGED panel_vars
    /\ anims # <<>>
    /\ LET st == AnimUpdate(anims, 1, [Store EXCEPT !.anims = <<>>])
       IN  /\ anim_progress' = st.p
           /\ state' = st.s
           /\ anims' = st.anims
           /\ written' = st.w
    /\ ev' = Event("tick", None, NoX, "none", "ok")
    /\ UNCHANGED <<touch, panel_init_x, touch_ox, touch_ud,
                   main_panel_final_offset, rel>>

Next ==
    \/ \E t \in Touches, x \in DownXs : on_touch_down(t, x)
    \/ \E t \in Touches, dx \in MoveDxs : on_touch_move(t, touch_ox + dx)
    \/ \E t \in Touches : on_touch_up(t)
    \/ \E v \in States \cup {"invalid"} : SetState(v)
    \/ \E v \in States \cup {"invalid"} : anim_to_state(v)
    \/ \E animate \in BOOLEAN : toggle_state(animate)
    \/ Tick

Spec == Init /\ [][Next]_vars

(***************************************************************************)
(* The drawer under both configurations of _main_panel_final_offset: the  *)
(* default 0 (the main panel stays put) and 1 (the main panel slides with  *)
(* the side panel and stands at x = side_panel_width when the drawer is    *)
(* open, so the snapshot _panel_init_x taken by an accepted touch is not   *)
(* always 0). The touches go down on the strip (9), at 39 and 45 (on the   *)
(* side panel or on the main panel, as the offset has it) and outside (81) *)
(* and are dragged by -80, -11, 0 and 80. The application of this         *)
(* scenario drives the drawer by touch and by jumps (state = v,            *)
(* toggle_state(animate=False)); the only Animations are those of the      *)
(* releases.                                                               *)
(***************************************************************************)
DownXsOffset == {9, 39, 45, 81}
MoveDxsOffset == {-80, -11, 0, 80}

InitOffset ==
    /\ anim_progress = 0
    /\ state = "closed"
    /\ touch = None
    /\ panel_init_x = 0
    /\ touch_ox = 0
    /\ touch_ud = "closed"
    /\ main_panel_final_offset \in {0, 1}
    /\ anims = <<>>
    /\ written = {}
    /\ ev = Event("init", None, NoX, "none", "ok")
    /\ rel = NoRel
    /\ kv_rule_applied

NextOffset ==
    \/ \E t \in Touches, x \in DownXsOffset : on_touch_down(t, x)
    \/ \E t \in Touches, dx \in MoveDxsOffset : on_touch_move(t, touch_ox + dx)
    \/ \E t \in Touches : on_touch_up(t)
    \/ \E v \in States \cup {"invalid"} : SetState(v)
    \/ \E animate \in {FALSE} : toggle_state(animate)
    \/ Tick

SpecOffset == InitOffset /\ [][NextOffset]_vars

(***************************************************************************)
(* The panels: add_widget, remove_widget, set_side_panel, set_main_panel.  *)
(* The kv rule adds its three widgets through add_widget while the drawer  *)
(* is constructed; the application calls come after that.                  *)
(***************************************************************************)

(* kivy's Widget.add_widget refuses a widget that has a parent. *)
has_parent(w) ==
    \/ w \in side_children \/ w \in main_children
    \/ \E i \in 1..Len(children) : children[i] = w

(* add_widget's last three branches: which panel takes the widget. *)
(* the chain without the final raise: a later widget goes to the main panel *)
free_slot_no_limit(sp, mp) ==
    IF sp = None THEN "side" ELSE "main"

(* the chain with the two panel tests in the other order *)
free_slot_main_first(sp, mp) ==
    IF mp = None THEN "main"
    ELSE IF sp = None THEN "side"
    ELSE "raise"

free_slot(sp, mp) ==
    IF sp = None THEN "side"
    ELSE IF mp = None THEN "main"
    ELSE "raise"

add_widget(w) ==
    /\ UNCHANGED gesture_vars
    /\ IF Len(children) = 0
       THEN /\ children' = Append(children, w)
            /\ side_container' = w
            /\ pev' = PanelEvent("add_widget", w, "ok")
            /\ UNCHANGED <<main_container, join_image, side_panel, main_panel,
                           side_children, main_children>>
       ELSE IF Len(children) = 1
       THEN /\ children' = Append(children, w)
            /\ main_container' = w
            /\ pev' = PanelEvent("add_widget", w, "ok")
            /\ UNCHANGED <<side_container, join_image, side_panel, main_panel,
                           side_children, main_children>>
       ELSE IF Len(children) = 2
       THEN /\ children' = Append(children, w)
            /\ join_image' = w
            /\ pev' = PanelEvent("add_widget", w, "ok")
            /\ UNCHANGED <<side_container, main_container, side_panel, main_panel,
                           side_children, main_children>>
       ELSE /\ UNCHANGED <<children, side_container, main_container, join_image>>
            /\ IF free_slot(side_panel, main_panel) = "raise"
               THEN /\ pev' = PanelEvent("add_widget", w, "NavigationDrawerException")
                    /\ UNCHANGED <<side_panel, main_panel, side_children, main_children>>
               ELSE IF has_parent(w)
               THEN /\ pev' = PanelEvent("add_widget", w, "WidgetException")
                    /\ UNCHANGED <<side_panel, main_panel, side_children, main_children>>
               ELSE IF free_slot(side_panel, main_panel) = "side"
               THEN /\ side_children' = side_children \cup {w}
                    /\ side_panel' = w
                    /\ pev' = PanelEvent("add_widget", w, "ok")
                    /\ UNCHANGED <<main_panel, main_children>>
               ELSE /\ main_children' = main_children \cup {w}
                    /\ main_panel' = w
                    /\ pev' = PanelEvent("add_widget", w, "ok")
                    /\ UNCHANGED <<side_panel, side_children>>

(* remove_widget's if / elif / else: which slot the widget is in. *)
(* the chain with a plain else in place of the elif *)
slot_of_no_check(w, sp, mp) ==
    IF w = sp THEN "side" ELSE "main"

slot_of(w, sp, mp) ==
    IF w = sp THEN "side"
    ELSE IF w = mp THEN "main"
    ELSE "raise"

remove_widget(w) ==
    /\ UNCHANGED gesture_vars
    /\ UNCHANGED <<children, side_container, main_container, join_image>>
    /\ IF slot_of(w, side_panel, main_panel) = "side"
       THEN /\ side_children' = side_children \ {w}
            /\ side_panel' = None
            /\ pev' = PanelEvent("remove_widget", w, "ok")
            /\ UNCHANGED <<main_panel, main_children>>
       ELSE IF slot_of(w, side_panel, main_panel) = "main"
       THEN /\ main_children' = main_children \ {w}
            /\ main_panel' = None
            /\ pev' = PanelEvent("remove_widget", w, "ok")
            /\ UNCHANGED <<side_panel, side_children>>
       ELSE /\ pev' = PanelEvent("remove_widget", w, "NavigationDrawerException")
            /\ UNCHANGED <<side_panel, main_panel, side_children, main_children>>

(* set_side_panel clears the container with self._side_panel.remove(child); *)
(* a BoxLayout has no attribute remove, so the first child raises          *)
(* AttributeError before anything is changed.                              *)
set_side_panel(w) ==
    /\ UNCHANGED gesture_vars
    /\ UNCHANGED <<children, side_container, main_container, join_image,
                   main_panel, main_children>>
    /\ IF side_children # {}
       THEN /\ pev' = PanelEvent("set_side_panel", w, "AttributeError")
            /\ UNCHANGED <<side_panel, side_children>>
       ELSE IF has_parent(w)
       THEN /\ pev' = PanelEvent("set_side_panel", w, "WidgetException")
            /\ UNCHANGED <<side_panel, side_children>>
       ELSE /\ side_children' = side_children \cup {w}
            /\ side_panel' = w
            /\ pev' = PanelEvent("set_side_panel", w, "ok")

set_main_panel(w) ==
    /\ UNCHANGED gesture_vars
    /\ UNCHANGED <<children, side_container, main_container, join_image,
                   side_panel, side_children>>
    /\ IF main_children # {}
       THEN /\ pev' = PanelEvent("set_main_panel", w, "AttributeError")
            /\ UNCHANGED <<main_panel, main_children>>
       ELSE IF has_parent(w)
       THEN /\ pev' = PanelEvent("set_main_panel", w, "WidgetException")
            /\ UNCHANGED <<main_panel, main_children>>
       ELSE /\ main_children' = main_children \cup {w}
            /\ main_panel' = w
            /\ pev' = PanelEvent("set_main_panel", w, "ok")

(* The drawer before the kv rule has run: no children at all. *)
InitPanels ==
    /\ anim_progress = 0
    /\ state = "closed"
    /\ touch = None
    /\ panel_init_x = 0
    /\ touch_ox = 0
    /\ touch_ud = "closed"
    /\ main_panel_final_offset = 0
    /\ anims = <<>>
    /\ written = {}
    /\ ev = Event("init", None, NoX, "none", "ok")
    /\ rel = NoRel
    /\ children = <<>>
    /\ side_container = None
    /\ main_container = None
    /\ join_image = None
    /\ side_panel = None
    /\ main_panel = None
    /\ side_children = {}
    /\ main_children = {}
    /\ pev = PanelEvent("init", None, "ok")

constructed == Len(children) = Len(KvWidgets)

NextPanels ==
    \/ ~constructed /\ add_widget(KvWidgets[Len(children) + 1])
    \/ constructed /\ \E w \in Widgets : add_widget(w)
    \/ constructed /\ \E w \in Widgets : remove_widget(w)
    \/ constructed /\ \E w \in Widgets : set_side_panel(w)
    \/ constructed /\ \E w \in Widgets : set_main_panel(w)

SpecPanels == InitPanels /\ [][NextPanels]_vars

TypeOK ==
    /\ anim_progress \in 0..side_panel_width
    /\ state \in States
    /\ touch \in Touches \cup {None}
    /\ Len(anims) <= MaxAnims

(* ---- helpers of the properties ---- *)
Settled(s) == anim_progress = StateProgress(s) /\ state = s
InMainPanel(x) ==
    /\ main_panel_x(anim_progress, main_panel_final_offset) <= x
    /\ x <= main_panel_x(anim_progress, main_panel_final_offset) + main_panel_width
OutsideStrip(x) == x < 0 \/ x > 0 + touch_accept_width
LastAnimTarget == LET an == anims[Len(anims)] IN an[Len(an)]

(***************************************************************************)
(* C1: Progress is within [0,1] in every reachable state, and so is every  *)
(* value Progress took on the way there, however far the drag displacement *)
(* exceeds the side panel width in either direction.                       *)
(***************************************************************************)
C1_ProgressInRange ==
    /\ 0 <= anim_progress /\ anim_progress <= side_panel_width
    /\ \A v \in written : 0 <= v /\ v <= side_panel_width

(* a handled move whose displacement exceeds the side panel width *)
C1_Witness ==
    /\ ev.op = "move" /\ ev.outcome = "handled"
    /\ ev.x - touch_ox > side_panel_width
    /\ anim_progress = side_panel_width

(***************************************************************************)
(* C2: at most one animation targeting Progress is in flight in every      *)
(* reachable state (starting one cancels the one in flight).               *)
(***************************************************************************)
C2_SingleAnimation == Len(anims) <= 1

(***************************************************************************)
(* C3: a pointer-down arriving while a session is active is not accepted   *)
(* and leaves the session's pointer, its panel-offset snapshot, its state  *)
(* snapshot and Progress unchanged.                                        *)
(***************************************************************************)
C3_SingleSession ==
    [][(ev'.op = "down" /\ touch # None)
        => /\ ev'.outcome = "passed"
           /\ UNCHANGED <<touch, panel_init_x, touch_ox, touch_ud, anim_progress>>]_vars

(* a second pointer went down inside the activation region during a session *)
C3_Witness ==
    /\ ev.op = "down" /\ ev.outcome = "passed"
    /\ touch # None /\ ev.touch # touch
    /\ collide_point(ev.x)
    /\ valid_region(anim_progress, main_panel_final_offset, ev.x)

(***************************************************************************)
(* C4: release of a session that began Closed: the relax animation goes to *)
(* Open if Progress > min_dist_to_open and to Closed otherwise (equality   *)
(* included), and with no further input the drawer settles there.          *)
(***************************************************************************)
C4_ReleaseFromClosed ==
    rel.init = "closed" =>
        /\ ev.op = "up" => LastAnimTarget = StateProgress(RelaxTarget(rel.p))
        /\ anims = <<>> => Settled(RelaxTarget(rel.p))

(***************************************************************************)
(* C5: release of a session that began Open: at Progress >= 0.975 the      *)
(* drawer animates to Closed and settles there; below 0.975 the threshold  *)
(* rule of C4 applies.                                                     *)
(***************************************************************************)
C5_ReleaseFromOpen ==
    rel.init = "open" =>
        LET target == IF 1000 * rel.p >= snap_back_progress * side_panel_width
                      THEN "closed" ELSE RelaxTarget(rel.p)
        IN  /\ ev.op = "up" => LastAnimTarget = StateProgress(target)
            /\ anims = <<>> => Settled(target)

(***************************************************************************)
(* C6: a non-animated setState(target) ends, in the same step, with        *)
(* Progress and state at the target, from every reachable state.           *)
(***************************************************************************)
C6_JumpReachesTarget ==
    (ev.op = "set_state" /\ ev.outcome = "ok") => Settled(ev.arg)

(***************************************************************************)
(* C7: Progress = 1 implies state Open and Progress = 0 implies state      *)
(* Closed, in every reachable state.                                       *)
(***************************************************************************)
C7_BoundImpliesState ==
    /\ anim_progress = side_panel_width => state = "open"
    /\ anim_progress = 0 => state = "closed"

(* an animation frame, not a command, brought the drawer to Open *)
C7_Witness ==
    ev.op = "tick" /\ anim_progress = side_panel_width /\ state = "open"

(***************************************************************************)
(* C8: with no session active and no animation in flight, Progress is 0    *)
(* with state Closed or 1 with state Open.                                 *)
(***************************************************************************)
C8_RestConsistent ==
    (touch = None /\ anims = <<>>) => (Settled("open") \/ Settled("closed"))

(* at rest after a release from a fractional Progress *)
C8_Witness ==
    /\ touch = None /\ anims = <<>>
    /\ rel.init # "none" /\ rel.p > 0 /\ rel.p < side_panel_width

(***************************************************************************)
(* C9: whenever the state is Closed, a pointer-down strictly outside       *)
(* [x, x + touch_accept_width] is not accepted.                            *)
(***************************************************************************)
C9_ClosedStateStrip ==
    [][(ev'.op = "down" /\ state = "closed" /\ OutsideStrip(ev'.x))
        => ev'.outcome = "passed"]_vars

(* C9 as amended: whenever Progress <= 0.001, a pointer-down strictly      *)
(* outside [x, x + touch_accept_width] is not accepted.                    *)
C9_ClosedProgressStrip ==
    [][(/\ ev'.op = "down"
        /\ 1000 * anim_progress <= open_region_progress * side_panel_width
        /\ OutsideStrip(ev'.x))
        => ev'.outcome = "passed"]_vars

(* rejected for the region alone, inside the drawer, animation in flight *)
C9_Witness ==
    /\ ev.op = "down" /\ ev.outcome = "passed"
    /\ collide_point(ev.x) /\ OutsideStrip(ev.x)
    /\ touch = None /\ anim_progress = 0 /\ anims # <<>>

Session == <<touch, panel_init_x, touch_ox, touch_ud>>
Drawer == <<anim_progress, state, touch, panel_init_x, touch_ox, touch_ud, anims>>

(***************************************************************************)
(* C11: every pointer-down the drawer does not accept (outside its bounds, *)
(* outside the activation region, or during a session) is passed through   *)
(* to the children, reported as not consumed, and changes neither          *)
(* Progress, state, session nor animations; every accepted pointer-down is *)
(* consumed and not passed through.                                        *)
(***************************************************************************)
C11_RejectedPassedThrough ==
    [][ev'.op = "down" =>
        /\ ev'.outcome \in {"passed", "accepted"}
        /\ (\/ ~collide_point(ev'.x)
            \/ ~valid_region(anim_progress, main_panel_final_offset, ev'.x)
            \/ touch # None) => ev'.outcome = "passed"
        /\ ev'.outcome = "passed" => UNCHANGED Drawer
        /\ ev'.outcome = "accepted" => touch' = ev'.touch]_vars

(* rejected for the region alone, while two animations are in flight *)
C11_Witness ==
    /\ ev.op = "down" /\ ev.outcome = "passed"
    /\ collide_point(ev.x) /\ touch = None
    /\ ~valid_region(anim_progress, main_panel_final_offset, ev.x)
    /\ Len(anims) = 2

(***************************************************************************)
(* C12: immediately after an accepted pointer-down no animation is in      *)
(* flight, the session slot holds that pointer, and the session holds the  *)
(* main panel's offset and the discrete state as they were at the moment   *)
(* of the pointer-down; Progress and state are unchanged by it.            *)
(***************************************************************************)
C12_AcceptedDownSnapshot ==
    [][(ev'.op = "down" /\ ev'.outcome = "accepted") =>
        /\ anims' = <<>>
        /\ touch' = ev'.touch
        /\ panel_init_x' = main_panel_x(anim_progress, main_panel_final_offset)
        /\ touch_ud' = state
        /\ UNCHANGED <<anim_progress, state>>]_vars

(* accepted at a fractional Progress, where animations were in flight;     *)
(* the snapshot of the state is that of the open drawer                    *)
C12_Witness ==
    /\ ev.op = "down" /\ ev.outcome = "accepted"
    /\ touch = ev.touch /\ anims = <<>>
    /\ anim_progress > 0 /\ anim_progress < side_panel_width
    /\ state = "open" /\ touch_ud = "open"

(***************************************************************************)
(* C13: a move or up event from a pointer that is not the session owner,   *)
(* or arriving when no session is active, is a no-op for the drawer:       *)
(* Progress, state, the session slot and its snapshots and the animations  *)
(* in flight are unchanged and no error is raised.                         *)
(***************************************************************************)
C13_ForeignMoveUpNoOp ==
    [][(ev'.op \in {"move", "up"} /\ ev'.touch # touch) =>
        /\ UNCHANGED Drawer
        /\ ev'.outcome = "passed"]_vars

(* another pointer is released during a session, animations in flight *)
C13_Witness ==
    /\ ev.op = "up" /\ ev.outcome = "passed"
    /\ touch # None /\ ev.touch # touch
    /\ anims # <<>>
    /\ anim_progress > 0 /\ anim_progress < side_panel_width

(***************************************************************************)
(* C14: for every move event by the session owner, Progress immediately    *)
(* afterwards equals clamp((panelInitOffset + dx) / sidePanelWidth, 0, 1), *)
(* dx being the pointer's displacement from its pointer-down position and  *)
(* panelInitOffset the session's snapshot: the result depends on the       *)
(* displacement only, not on the path of earlier moves.                    *)
(***************************************************************************)
C14_MoveMapsDisplacement ==
    [][(ev'.op = "move" /\ ev'.touch = touch) =>
        LET dx == ev'.x - touch_ox
            v == panel_init_x + dx
        IN  anim_progress' = IF v < 0 THEN 0
                             ELSE IF v > side_panel_width THEN side_panel_width
                             ELSE v]_vars

(* a session that began with the main panel at offset 29 is dragged 11 to  *)
(* the left                                                                *)
C14_Witness ==
    /\ ev.op = "move" /\ ev.outcome = "handled" /\ touch = ev.touch
    /\ panel_init_x = 29 /\ ev.x - touch_ox = -11 /\ anim_progress = 18

(***************************************************************************)
(* C15: toggle(animate=false) from Closed sets state Open and Progress 1   *)
(* in the same step and starts no animation, and from Open sets Closed and *)
(* Progress 0; toggle(animate) always targets the opposite of the current  *)
(* discrete state.                                                         *)
(***************************************************************************)
C15_ToggleOpposite ==
    [][ev'.op = "toggle" =>
        LET target == IF state = "open" THEN "closed" ELSE "open"
            bound == IF target = "open" THEN side_panel_width ELSE 0
        IN  IF ev'.arg = "jump"
            THEN /\ state' = target
                 /\ anim_progress' = bound
                 /\ anims' = <<>>
            ELSE /\ anims' # <<>>
                 /\ anims'[Len(anims')][AnimSteps] = bound
                 /\ UNCHANGED <<anim_progress, state>>]_vars

(* a jump to Open during a session that began Closed *)
C15_Witness ==
    /\ ev.op = "toggle" /\ ev.arg = "jump"
    /\ state = "open" /\ anim_progress = side_panel_width
    /\ touch # None /\ touch_ud = "closed" /\ anims = <<>>
    /\ \E v \in written : v = side_panel_width

(***************************************************************************)
(* C16: setState with a token that is neither Open nor Closed fails with   *)
(* an error, on the animated and on the non-animated path alike, and       *)
(* leaves Progress, state, the session slot and the animations in flight   *)
(* unchanged.                                                              *)
(***************************************************************************)
C16_InvalidStateRejected ==
    [][(/\ ev'.op \in {"set_state", "anim_to_state"}
        /\ ev'.arg # "open" /\ ev'.arg # "closed")
        => (ev'.outcome = "raised" /\ UNCHANGED Drawer)]_vars

(* the animated path refuses the token during a session, with an           *)
(* animation in flight and Progress between the bounds                     *)
C16_Witness ==
    /\ ev.op = "anim_to_state" /\ ev.arg = "invalid" /\ ev.outcome = "raised"
    /\ touch # None /\ anims # <<>>
    /\ anim_progress > 0 /\ anim_progress < side_panel_width

(***************************************************************************)
(* C17: once a side panel and a main panel are both attached, every        *)
(* further attach attempt fails with a structure error and leaves the      *)
(* attached side panel and main panel unchanged; in every reachable state  *)
(* at most two content panels are attached.                                *)
(***************************************************************************)
C17_ThirdAttachFails ==
    /\ [](Cardinality(side_children \cup main_children) <= 2)
    /\ [][(/\ pev'.op = "add_widget"
           /\ constructed
           /\ side_panel # None /\ main_panel # None)
           => /\ pev'.outcome = "NavigationDrawerException"
              /\ UNCHANGED <<side_panel, main_panel,
                             side_children, main_children>>]_vars

(* a third widget was refused with both panels attached *)
C17_Witness ==
    /\ pev.op = "add_widget" /\ pev.outcome = "NavigationDrawerException"
    /\ side_panel # None /\ main_panel # None
    /\ pev.w # side_panel /\ pev.w # main_panel
    /\ side_children = {side_panel} /\ main_children = {main_panel}

(***************************************************************************)
(* C18: removing a widget that is neither the attached side panel nor the  *)
(* attached main panel fails with a structure error and leaves both panel  *)
(* slots unchanged; removing an attached panel empties exactly that slot   *)
(* and leaves the other slot unchanged.                                    *)
(***************************************************************************)
C18_RemoveAttachedOnly ==
    [][pev'.op = "remove_widget" =>
        IF pev'.w = side_panel
        THEN /\ side_panel' = None /\ pev'.w \notin side_children'
             /\ UNCHANGED <<main_panel, main_children>>
             /\ pev'.outcome = "ok"
        ELSE IF pev'.w = main_panel
        THEN /\ main_panel' = None /\ pev'.w \notin main_children'
             /\ UNCHANGED <<side_panel, side_children>>
             /\ pev'.outcome = "ok"
        ELSE /\ pev'.outcome = "NavigationDrawerException"
             /\ UNCHANGED <<side_panel, main_panel,
                            side_children, main_children>>]_vars

(* a widget that is not attached was refused while both panels are attached *)
C18_Witness ==
    /\ pev.op = "remove_widget" /\ pev.outcome = "NavigationDrawerException"
    /\ side_panel # None /\ main_panel # None
    /\ pev.w # side_panel /\ pev.w # main_panel

(***************************************************************************)
(* C19: idempotence of the non-animated command: from every reachable      *)
(* state, setState(Open, animate=false) twice in a row yields Progress 1   *)
(* and state Open after the first call, and the second call changes        *)
(* nothing (the same for Closed with Progress 0).                          *)
(***************************************************************************)
C19_SetStateIdempotent ==
    [][(ev'.op = "set_state" /\ ev'.outcome = "ok") =>
        IF ev.op = "set_state" /\ ev.outcome = "ok" /\ ev.arg = ev'.arg
        THEN UNCHANGED Drawer
        ELSE /\ state' = ev'.arg
             /\ anim_progress' = IF ev'.arg = "open" THEN side_panel_width ELSE 0]_vars

(***************************************************************************)
(* C20: the discrete state changes only in a step that is an explicit      *)
(* non-animated open/close command (setState or toggle with                *)
(* animate=false), or in which Progress reaches 0 or 1 through a drag move *)
(* or an animation tick; pointer-down, pointer-up, rejected events and     *)
(* the start of an animation never change it.                              *)
(***************************************************************************)
C20_StateChangeCauses ==
    [][state' # state =>
        \/ ev'.op = "set_state" /\ ev'.outcome = "ok"
        \/ ev'.op = "toggle" /\ ev'.arg = "jump"
        \/ /\ ev'.op = "tick" \/ (ev'.op = "move" /\ ev'.outcome = "handled")
           /\ anim_progress' = 0 \/ anim_progress' = side_panel_width
           /\ anim_progress' \in written']_vars

(* a drag took the drawer of a session that began Open to Progress 0 and   *)
(* state Closed                                                            *)
C20_Witness ==
    /\ ev.op = "move" /\ ev.outcome = "handled"
    /\ touch = ev.touch /\ touch_ud = "open"
    /\ anim_progress = 0 /\ state = "closed" /\ 0 \in written

(***************************************************************************)
(* The clock keeps delivering frames: kivy's Clock calls every running     *)
(* Animation once per frame for as long as one is running.  The touches    *)
(* go down on the strip and beside it and are dragged to the threshold     *)
(* (28), just past it (29) and to 0.975 (39).                              *)
(***************************************************************************)
DownXsLive == {9, 10}
MoveDxsLive == {28, 29, 39}

NextLive ==
    \/ \E t \in Touches, x \in DownXsLive : on_touch_down(t, x)
    \/ \E t \in Touches, dx \in MoveDxsLive : on_touch_move(t, touch_ox + dx)
    \/ \E t \in Touches : on_touch_up(t)
    \/ \E v \in States : SetState(v)
    \/ \E v \in States : anim_to_state(v)
    \/ \E animate \in BOOLEAN : toggle_state(animate)
    \/ Tick

(* Weak fairness of Tick, WF_vars(Tick), written out: Tick is enabled      *)
(* exactly when an Animation is running, and every Tick changes anims.     *)
TickFairness == []<>(anims = <<>>) \/ []<><<Tick>>_vars

SpecLive == Init /\ [][NextLive]_vars /\ TickFairness

AtRest ==
    /\ touch = None /\ anims = <<>>
    /\ Settled("open") \/ Settled("closed")

(***************************************************************************)
(* C21: after the owner's pointer-up at any Progress, provided animation   *)
(* ticks keep being delivered and no further pointer event or command      *)
(* arrives, the drawer eventually reaches Progress 0 with state Closed or  *)
(* Progress 1 with state Open, with no animation in flight and no session. *)
(***************************************************************************)
C21_ReleaseSettles ==
    (rel.init # "none") ~> (rel.init = "none" \/ AtRest)

(* at rest by the frames alone, after a release between the bounds *)
C21_Witness ==
    /\ ev.op = "tick" /\ rel.init # "none"
    /\ rel.p > 0 /\ rel.p < side_panel_width
    /\ AtRest

(***************************************************************************)
(* C22: content panels fill the slots side first, then main: the first     *)
(* content widget attached becomes the side panel and the second the main  *)
(* panel; after a panel is removed, the next widget attached fills the     *)
(* vacant slot (the side slot when both are vacant) and never displaces    *)
(* the panel that is still attached.                                       *)
(***************************************************************************)
C22_SideThenMain ==
    [][(/\ pev'.op = "add_widget" /\ constructed
        /\ pev'.w \notin side_children \cup main_children) =>
        IF side_panel = None
        THEN /\ pev'.outcome = "ok"
             /\ side_panel' = pev'.w /\ side_children' = {pev'.w}
             /\ UNCHANGED <<main_panel, main_children>>
        ELSE IF main_panel = None
        THEN /\ pev'.outcome = "ok"
             /\ main_panel' = pev'.w /\ main_children' = {pev'.w}
             /\ UNCHANGED <<side_panel, side_children>>
        ELSE UNCHANGED <<side_panel, main_panel, side_children, main_children>>]_vars

(* a widget added while the main panel was attached and the side slot      *)
(* vacant took the side slot                                               *)
C22_Witness ==
    /\ pev.op = "add_widget" /\ pev.outcome = "ok"
    /\ side_panel = pev.w /\ main_panel # None
    /\ side_children = {side_panel} /\ main_children = {main_panel}

(***************************************************************************)
(* C23: set_side_panel(widget), and likewise set_main_panel, removes the   *)
(* existing widgets of that panel and replaces them with the argument:     *)
(* called when a panel is already attached it completes without error,     *)
(* and afterwards the panel container holds exactly the new widget and the *)
(* panel reference is the new widget, with the other panel unchanged.      *)
(***************************************************************************)
C23_SetPanelReplaces ==
    [][/\ (/\ pev'.op = "set_side_panel"
           /\ side_panel # None /\ pev'.w \notin main_children)
          => /\ pev'.outcome = "ok"
             /\ side_children' = {pev'.w} /\ side_panel' = pev'.w
             /\ UNCHANGED <<main_panel, main_children>>
       /\ (/\ pev'.op = "set_main_panel"
           /\ main_panel # None /\ pev'.w \notin side_children)
          => /\ pev'.outcome = "ok"
             /\ main_children' = {pev'.w} /\ main_panel' = pev'.w
             /\ UNCHANGED <<side_panel, side_children>>]_vars

(***************************************************************************)
(* C24: a zero-displacement move preserves Progress: after an accepted     *)
(* pointer-down at Progress p, a move by the session owner with dx = 0     *)
(* leaves Progress equal to p, i.e. the panel-offset snapshot taken at     *)
(* pointer-down equals p * sidePanelWidth, for every configuration of the  *)
(* main-panel final offset (the default 0 included) and for p = 1.         *)
(***************************************************************************)
C24_ZeroMoveKeepsProgress ==
    [][/\ (ev'.op = "down" /\ ev'.outcome = "accepted")
          => panel_init_x' = anim_progress
       /\ (/\ ev.op = "down" /\ ev.outcome = "accepted"
           /\ ev'.op = "move" /\ ev'.touch = touch /\ ev'.x = touch_ox)
          => anim_progress' = anim_progress]_vars

(***************************************************************************)
(* C25: the release decides by the discrete state snapshotted at           *)
(* pointer-down, not by the state at the release: a session that began     *)
(* Closed and is released at Progress >= 0.975 (the drag having driven     *)
(* Progress to 1 and the state to Open) animates to Open, and a session    *)
(* that began Open, was dragged to Progress 0 (state Closed) and back, and *)
(* is released at Progress >= 0.975 animates to Closed.                    *)
(***************************************************************************)
C25_ReleaseUsesSnapshot ==
    [][(/\ ev'.op = "up" /\ ev'.outcome = "handled"
        /\ 1000 * anim_progress >= snap_back_progress * side_panel_width) =>
        /\ Len(anims') = Len(anims) + 1
        /\ anims'[Len(anims')][AnimSteps] =
               IF touch_ud = "closed" THEN side_panel_width ELSE 0]_vars

(* a session that began Open was released at 0.975 with the state Closed,  *)
(* and animates to Closed                                                  *)
C25_Witness ==
    /\ ev.op = "up" /\ ev.outcome = "handled"
    /\ rel.init = "open" /\ rel.p = 39
    /\ state = "closed" /\ anim_progress = 39
    /\ anims # <<>> /\ LastAnimTarget = 0

(***************************************************************************)
(* C26: the latest command wins: when an animated command (anim_to_state,  *)
(* an animated toggle, or the animation of a release) is issued while an   *)
(* earlier animation toward the opposite target is still in flight, and no *)
(* further input arrives, the drawer settles at the later command's target *)
(* (Progress and state), never at the earlier one's.  Stated on the frame  *)
(* that ends the last animation in flight: the animations of that moment   *)
(* ended at targets in the order they were started, and the drawer is at   *)
(* the target of the one started last.                                     *)
(***************************************************************************)
C26_LatestWins ==
    [][(/\ ev'.op = "tick" /\ anims' = <<>>
        /\ Len(anims) >= 2
        /\ LastAnimTarget # anims[1][Len(anims[1])]) =>
        /\ anim_progress' = LastAnimTarget
        /\ state' = IF LastAnimTarget = 0 THEN "closed" ELSE "open"]_vars

====
